---------------------------- MODULE Spec2Model ----------------------------
(***************************************************************************)
(* Model of pbrt-v3's RealisticCamera (src/src/cameras/realistic.cpp):     *)
(* loading of the lens prescription, focusing, the exit-pupil bounds, the  *)
(* two lens tracers and GenerateRay.                                       *)
(*                                                                         *)
(* Float values are modelled as binary floating-point numbers with a       *)
(* MantBits-bit significand, round-to-nearest-even, NaN and +-Infinity:    *)
(* a Float is a pair <<m, e>> standing for m * 2^e.                        *)
(***************************************************************************)
EXTENDS Integers, Sequences, FiniteSets, TLC

(***************************************************************************)
(* Float arithmetic                                                        *)
(***************************************************************************)
\* Width of the significand kept by the model's Float.
MantBits == 12

NaN == <<0, 1000001>>
PInf == <<1, 1000000>>
NInf == <<-1, 1000000>>
Zero == <<0, 0>>

IsNaN(a) == a = NaN
IsInf(a) == a[2] = 1000000
IsFinite(a) == a[2] < 1000000

\* A local variable: Op applied to the value v, which is evaluated once and
\* before Op is applied.
With(v, Op(_)) == CASE v = v -> Op(v)

Abs(n) == IF n < 0 THEN -n ELSE n
Sgn(n) == IF n < 0 THEN -1 ELSE IF n > 0 THEN 1 ELSE 0

RECURSIVE BitLen(_)
BitLen(n) ==
  IF n >= 65536 THEN 16 + BitLen(n \div 65536)
  ELSE IF n >= 256 THEN 8 + BitLen(n \div 256)
  ELSE IF n >= 16 THEN 4 + BitLen(n \div 16)
  ELSE IF n >= 8 THEN 4
  ELSE IF n >= 4 THEN 3
  ELSE IF n >= 2 THEN 2
  ELSE n

\* n / 2^k rounded to nearest, ties to even (n >= 0, k >= 1).
RShift(n, k) ==
  LET p == 2 ^ k
      q == n \div p
      r == n % p
      h == p \div 2
  IN  IF r > h \/ (r = h /\ q % 2 = 1) THEN q + 1 ELSE q

\* The Float nearest to s * n * 2^e (s the sign, n >= 0); binary32's exponent
\* range: overflow to Infinity, underflow flushed to zero.
Pack(s, m, e) ==
  IF e + MantBits > 128 THEN (IF s < 0 THEN NInf ELSE PInf)
  ELSE IF e + MantBits < -125 THEN Zero
  ELSE <<s * m, e>>

\* n of b bits rounded to MantBits bits.
Round(s, n, e, b) ==
  IF b > MantBits
  THEN With(RShift(n, b - MantBits), LAMBDA q :
         Pack(s, IF q = 2 ^ MantBits THEN q \div 2 ELSE q,
              IF q = 2 ^ MantBits THEN e + b - MantBits + 1 ELSE e + b - MantBits))
  ELSE Pack(s, n * 2 ^ (MantBits - b), e - (MantBits - b))

Norm(s, n, e) == IF n = 0 THEN Zero ELSE Round(s, n, e, BitLen(n))

\* The Float nearest to the integer t * 2^e.
NormInt(t, e) == Norm(Sgn(t), Abs(t), e)

FromInt(n) == Norm(Sgn(n), Abs(n), 0)

FNeg(a) == IF IsNaN(a) THEN NaN ELSE <<-a[1], a[2]>>

FAdd(a, b) ==
  IF IsNaN(a) \/ IsNaN(b) THEN NaN
  ELSE IF IsInf(a) THEN (IF IsInf(b) /\ a[1] # b[1] THEN NaN ELSE a)
  ELSE IF IsInf(b) THEN b
  ELSE IF a[1] = 0 THEN b
  ELSE IF b[1] = 0 THEN a
  ELSE LET hi == IF a[2] >= b[2] THEN a ELSE b
           lo == IF a[2] >= b[2] THEN b ELSE a
           d == hi[2] - lo[2]
       IN  IF d > MantBits + 1 THEN hi
           ELSE NormInt(hi[1] * 2 ^ d + lo[1], lo[2])

FSub(a, b) == FAdd(a, FNeg(b))

FMul(a, b) ==
  IF IsNaN(a) \/ IsNaN(b) THEN NaN
  ELSE IF IsInf(a) \/ IsInf(b)
       THEN (IF a[1] = 0 \/ b[1] = 0 THEN NaN
             ELSE IF Sgn(a[1]) * Sgn(b[1]) < 0 THEN NInf ELSE PInf)
  ELSE IF a[1] = 0 \/ b[1] = 0 THEN Zero
  ELSE Norm(Sgn(a[1]) * Sgn(b[1]), Abs(a[1]) * Abs(b[1]), a[2] + b[2])

FDiv(a, b) ==
  IF IsNaN(a) \/ IsNaN(b) THEN NaN
  ELSE IF IsInf(a)
       THEN (IF IsInf(b) THEN NaN
             ELSE IF a[1] * (IF b[1] < 0 THEN -1 ELSE 1) < 0 THEN NInf ELSE PInf)
  ELSE IF IsInf(b) THEN Zero
  ELSE IF b[1] = 0
       THEN (IF a[1] = 0 THEN NaN ELSE IF a[1] < 0 THEN NInf ELSE PInf)
  ELSE IF a[1] = 0 THEN Zero
  ELSE LET num == Abs(a[1]) * 2 ^ (MantBits + 1)
           q == num \div Abs(b[1])
           \* a sticky bit keeps an inexact quotient off the rounding tie
           qs == IF num % Abs(b[1]) = 0 THEN 2 * q ELSE 2 * q + 1
       IN  Norm(Sgn(a[1]) * Sgn(b[1]), qs, a[2] - b[2] - MantBits - 2)

\* The integer square root of n, one hexadecimal digit after the other:
\* lo is the root found so far, step the weight of the next digit.
RECURSIVE ISqrt(_, _, _)
ISqrt(n, lo, step) ==
  IF step = 0 THEN lo
  ELSE ISqrt(n,
             lo + step * Cardinality({d \in 1..15 :
                                       /\ lo + d * step <= 46340
                                       /\ (lo + d * step) * (lo + d * step) <= n}),
             step \div 16)

FSqrt(a) ==
  IF IsNaN(a) THEN NaN
  ELSE IF a[1] < 0 THEN NaN
  ELSE IF IsInf(a) THEN PInf
  ELSE IF a[1] = 0 THEN Zero
  ELSE LET \* the exponent of n is made even
           k == IF (a[2] - MantBits) % 2 = 0 THEN MantBits ELSE MantBits + 1
           n == a[1] * 2 ^ k
           r == ISqrt(n, 0, 4096)
           rs == IF r * r = n THEN 2 * r ELSE 2 * r + 1
       IN  Norm(1, rs, ((a[2] - k) \div 2) - 1)

\* Comparisons; every comparison with a NaN is false.
MagLess(a, b) == a[2] < b[2] \/ (a[2] = b[2] /\ Abs(a[1]) < Abs(b[1]))

FLt(a, b) ==
  /\ ~IsNaN(a)
  /\ ~IsNaN(b)
  /\ a # b
  /\ IF Sgn(a[1]) # Sgn(b[1]) THEN Sgn(a[1]) < Sgn(b[1])
     ELSE IF a[1] > 0 THEN MagLess(a, b) ELSE MagLess(b, a)

FGt(a, b) == FLt(b, a)
FLe(a, b) == ~IsNaN(a) /\ ~IsNaN(b) /\ (a = b \/ FLt(a, b))
FGe(a, b) == FLe(b, a)
FEq(a, b) == ~IsNaN(a) /\ a = b

FMin(a, b) == IF FLt(b, a) THEN b ELSE a
FMax(a, b) == IF FLt(a, b) THEN b ELSE a

\* The Float nearest to the decimal literal n/d.
Lit(n, d) == FDiv(FromInt(n), FromInt(d))

(***************************************************************************)
(* Vectors, rays and the geometry helpers of pbrt's core                   *)
(***************************************************************************)
One == FromInt(1)
Two == FromInt(2)

Dot(a, b) == FAdd(FAdd(FMul(a[1], b[1]), FMul(a[2], b[2])), FMul(a[3], b[3]))
VAdd(a, b) == <<FAdd(a[1], b[1]), FAdd(a[2], b[2]), FAdd(a[3], b[3])>>
VSub(a, b) == <<FSub(a[1], b[1]), FSub(a[2], b[2]), FSub(a[3], b[3])>>
VScale(s, a) == <<FMul(s, a[1]), FMul(s, a[2]), FMul(s, a[3])>>
VNeg(a) == <<FNeg(a[1]), FNeg(a[2]), FNeg(a[3])>>
VDiv(a, s) == <<FDiv(a[1], s), FDiv(a[2], s), FDiv(a[3], s)>>

Normalize(v) == VDiv(v, FSqrt(Dot(v, v)))
Faceforward(n, v) == IF FLt(Dot(n, v), Zero) THEN VNeg(n) ELSE n

\* Ray::operator(): the point o + t d.
RayAt(r, t) == VAdd(r.o, VScale(t, r.d))

\* Scale(1, 1, -1) applied to a ray: CameraToLens and LensToCamera.
CameraToLens(r) ==
  [o |-> <<r.o[1], r.o[2], FNeg(r.o[3])>>, d |-> <<r.d[1], r.d[2], FNeg(r.d[3])>>]

\* Quadratic(A, B, C, &t0, &t1): the two roots in increasing order, or a miss.
Quadratic(A, B, C) ==
  With(FSub(FMul(B, B), FMul(FMul(FromInt(4), A), C)), LAMBDA discrim :
    IF FLe(discrim, Zero) THEN [ok |-> FALSE, t0 |-> Zero, t1 |-> Zero]
    ELSE With(FSqrt(discrim), LAMBDA rootDiscrim :
         With(FDiv(FSub(FNeg(B), rootDiscrim), FMul(Two, A)), LAMBDA ta :
         With(FDiv(FAdd(FNeg(B), rootDiscrim), FMul(Two, A)), LAMBDA tb :
           [ok |-> TRUE,
            t0 |-> IF FGt(ta, tb) THEN tb ELSE ta,
            t1 |-> IF FGt(ta, tb) THEN ta ELSE tb]))))

\* Refract(wi, n, eta, &wt): Snell's law; fails on total internal reflection.
Refract(wi, n, eta) ==
  With(Dot(n, wi), LAMBDA cosThetaI :
  With(FMax(Zero, FSub(One, FMul(cosThetaI, cosThetaI))), LAMBDA sin2ThetaI :
  With(FMul(FMul(eta, eta), sin2ThetaI), LAMBDA sin2ThetaT :
    IF FGe(sin2ThetaT, One) THEN [ok |-> FALSE, wt |-> wi]
    ELSE With(FSqrt(FSub(One, sin2ThetaT)), LAMBDA cosThetaT :
           [ok |-> TRUE,
            wt |-> VAdd(VScale(eta, VNeg(wi)),
                        VScale(FSub(FMul(eta, cosThetaI), cosThetaT), n))]))))

(***************************************************************************)
(* The lens system                                                         *)
(***************************************************************************)
Back(elems) == elems[Len(elems)]

\* LensRearZ(), LensFrontZ() and RearElementRadius() of realistic.h.
LensRearZ(elems) == Back(elems).thickness

RECURSIVE SumThickness(_, _)
SumThickness(elems, n) ==
  IF n = 0 THEN Zero ELSE FAdd(SumThickness(elems, n - 1), elems[n].thickness)

LensFrontZ(elems) == SumThickness(elems, Len(elems))
RearElementRadius(elems) == Back(elems).apertureRadius

NoIntersection == [hit |-> FALSE, t |-> Zero, n |-> <<Zero, Zero, Zero>>]

\* Whether the closer of the two intersections is the one wanted.
CloserIsect(radius, ray) == FGt(ray.d[3], Zero) # FLt(radius, Zero)

IntersectSphericalElement(radius, center, ray) ==
  With(VSub(ray.o, <<Zero, Zero, center>>), LAMBDA o :
  With(Quadratic(Dot(ray.d, ray.d),
                 FMul(Two, Dot(ray.d, o)),
                 FSub(Dot(o, o), FMul(radius, radius))), LAMBDA q :
    IF ~q.ok THEN NoIntersection
    ELSE With(IF CloserIsect(radius, ray)
              THEN FMin(q.t0, q.t1) ELSE FMax(q.t0, q.t1), LAMBDA t :
           IF FLt(t, Zero) THEN NoIntersection
           ELSE [hit |-> TRUE, t |-> t,
                 n |-> Faceforward(Normalize(VAdd(o, VScale(t, ray.d))),
                                   VNeg(ray.d))])))

\* What happened at one surface of a trace.
\*   fail: "" (the ray goes on), "miss", "aperture" or "refract";
\*   o, d: the ray after the surface; dIn: its direction before.
StepRecord(i, element, elementZ, rLens, t, pHit, r2, eta_i, eta_t, o, d, fail) ==
  [i |-> i, isStop |-> FEq(element.curvatureRadius, Zero),
   elementZ |-> elementZ, t |-> t, pHit |-> pHit, r2 |-> r2,
   apertureRadius |-> element.apertureRadius,
   eta_i |-> eta_i, eta_t |-> eta_t, dIn |-> rLens.d,
   o |-> o, d |-> d, fail |-> fail]

\* "Compute intersection of ray with lens element": the plane of a stop, or
\* the sphere of a refracting surface.
Intersect(element, elementZ, rLens) ==
  IF FEq(element.curvatureRadius, Zero)
  THEN [hit |-> TRUE,
        t |-> FDiv(FNeg(FSub(rLens.o[3], elementZ)), rLens.d[3]),
        n |-> <<Zero, Zero, Zero>>]
  ELSE IntersectSphericalElement(element.curvatureRadius,
                                 FAdd(elementZ, element.curvatureRadius), rLens)

\* An interface interaction that leaves the direction alone at every surface.
BendNever(i, element, elementZ, rLens, isect, pHit, r2, eta_i, eta_t) ==
  StepRecord(i, element, elementZ, rLens, isect.t, pHit, r2, eta_i, eta_t,
             pHit, rLens.d, "")

\* "Update ray path for element interface interaction" at the point pHit.
Bend(i, element, elementZ, rLens, isect, pHit, r2, eta_i, eta_t) ==
  IF FEq(element.curvatureRadius, Zero)
  THEN StepRecord(i, element, elementZ, rLens, isect.t, pHit, r2, eta_i, eta_t,
                  pHit, rLens.d, "")
  ELSE With(Refract(Normalize(VNeg(rLens.d)), isect.n, FDiv(eta_i, eta_t)),
            LAMBDA rf :
         StepRecord(i, element, elementZ, rLens, isect.t, pHit, r2, eta_i, eta_t,
                    pHit, IF rf.ok THEN rf.wt ELSE rLens.d,
                    IF rf.ok THEN "" ELSE "refract"))

\* "Test intersection point against element aperture", then bend the ray.
Clip(i, element, elementZ, rLens, isect, pHit, r2, eta_i, eta_t) ==
  IF FGt(r2, FMul(element.apertureRadius, element.apertureRadius))
  THEN StepRecord(i, element, elementZ, rLens, isect.t, pHit, r2, eta_i, eta_t,
                  rLens.o, rLens.d, "aperture")
  ELSE Bend(i, element, elementZ, rLens, isect, pHit, r2, eta_i, eta_t)

\* The body of the loop of both tracers once the intersection is known.
Interact(i, element, elementZ, rLens, isect, eta_i, eta_t) ==
  IF ~isect.hit
  THEN StepRecord(i, element, elementZ, rLens, isect.t, rLens.o, Zero,
                  eta_i, eta_t, rLens.o, rLens.d, "miss")
  ELSE With(RayAt(rLens, isect.t), LAMBDA pHit :
         Clip(i, element, elementZ, rLens, isect, pHit,
              FAdd(FMul(pHit[1], pHit[1]), FMul(pHit[2], pHit[2])),
              eta_i, eta_t))

\* One iteration of the loop of TraceLensesFromFilm for surface i, with the
\* ray rLens and the element's axial position elementZ.
FilmStep(elems, i, elementZ, rLens) ==
  Interact(i, elems[i], elementZ, rLens, Intersect(elems[i], elementZ, rLens),
           elems[i].eta,
           IF i > 1 /\ ~FEq(elems[i - 1].eta, Zero) THEN elems[i - 1].eta ELSE One)

\* The rest of a trace after the step st at surface i.
RECURSIVE FilmLoop(_, _, _, _, _)
FilmNext(elems, i, rLens, steps, st) ==
  IF st.fail # ""
  THEN [ok |-> FALSE, rLens |-> rLens, steps |-> Append(steps, st)]
  ELSE FilmLoop(elems, i - 1, st.elementZ, [o |-> st.o, d |-> st.d],
                Append(steps, st))

\* The loop of TraceLensesFromFilm from surface i down to the first one;
\* elementZ is the position of the surface behind surface i.
FilmLoop(elems, i, elementZ, rLens, steps) ==
  IF i < 1 THEN [ok |-> TRUE, rLens |-> rLens, steps |-> steps]
  ELSE FilmNext(elems, i, rLens, steps,
                FilmStep(elems, i, FSub(elementZ, elems[i].thickness), rLens))

\* The ray and the verdict handed back by a tracer.
TraceResult(r) == [ok |-> r.ok, rOut |-> CameraToLens(r.rLens), steps |-> r.steps]

\* TraceLensesFromFilm(ray, &rOut): ok, the ray out (camera space) and the
\* surfaces visited, in the order visited.
TraceLensesFromFilm(elems, ray) ==
  With(CameraToLens(ray), LAMBDA rLens :
    TraceResult(FilmLoop(elems, Len(elems), Zero, rLens, <<>>)))

\* One iteration of the loop of TraceLensesFromScene for surface i.
SceneStep(elems, i, elementZ, rLens) ==
  Interact(i, elems[i], elementZ, rLens, Intersect(elems[i], elementZ, rLens),
           IF i = 1 \/ FEq(elems[i - 1].eta, Zero) THEN One ELSE elems[i - 1].eta,
           IF ~FEq(elems[i].eta, Zero) THEN elems[i].eta ELSE One)

\* The rest of a trace from the scene after the step st at surface i.
RECURSIVE SceneLoop(_, _, _, _, _)
SceneNext(elems, i, rLens, steps, st) ==
  IF st.fail # ""
  THEN [ok |-> FALSE, rLens |-> rLens, steps |-> Append(steps, st)]
  ELSE SceneLoop(elems, i + 1, FAdd(st.elementZ, elems[i].thickness),
                 [o |-> st.o, d |-> st.d], Append(steps, st))

\* The loop of TraceLensesFromScene from surface i up to the last one.
SceneLoop(elems, i, elementZ, rLens, steps) ==
  IF i > Len(elems) THEN [ok |-> TRUE, rLens |-> rLens, steps |-> steps]
  ELSE SceneNext(elems, i, rLens, steps, SceneStep(elems, i, elementZ, rLens))

TraceLensesFromScene(elems, ray) ==
  With(CameraToLens(ray), LAMBDA rLens :
    TraceResult(SceneLoop(elems, 1, FNeg(LensFrontZ(elems)), rLens, <<>>)))

(***************************************************************************)
(* Bounds2f                                                                *)
(***************************************************************************)
\* std::numeric_limits<Float>::max()
MaxFloat == <<2 ^ MantBits - 1, 128 - MantBits>>

\* Bounds2f(): the empty box, pMin = max, pMax = lowest.
EmptyBounds == [pMin |-> <<MaxFloat, MaxFloat>>,
                pMax |-> <<FNeg(MaxFloat), FNeg(MaxFloat)>>]

Union(b, pt) ==
  [pMin |-> <<FMin(b.pMin[1], pt[1]), FMin(b.pMin[2], pt[2])>>,
   pMax |-> <<FMax(b.pMax[1], pt[1]), FMax(b.pMax[2], pt[2])>>]

UnionBounds(b1, b2) ==
  [pMin |-> <<FMin(b1.pMin[1], b2.pMin[1]), FMin(b1.pMin[2], b2.pMin[2])>>,
   pMax |-> <<FMax(b1.pMax[1], b2.pMax[1]), FMax(b1.pMax[2], b2.pMax[2])>>]

Expand(b, delta) ==
  [pMin |-> <<FSub(b.pMin[1], delta), FSub(b.pMin[2], delta)>>,
   pMax |-> <<FAdd(b.pMax[1], delta), FAdd(b.pMax[2], delta)>>]

Lerp(t, v1, v2) == FAdd(FMul(FSub(One, t), v1), FMul(t, v2))

BoundsLerp(b, t) ==
  <<Lerp(t[1], b.pMin[1], b.pMax[1]), Lerp(t[2], b.pMin[2], b.pMax[2])>>

Inside(pt, b) ==
  /\ FGe(pt[1], b.pMin[1]) /\ FLe(pt[1], b.pMax[1])
  /\ FGe(pt[2], b.pMin[2]) /\ FLe(pt[2], b.pMax[2])

Area(b) == FMul(FSub(b.pMax[1], b.pMin[1]), FSub(b.pMax[2], b.pMin[2]))

(***************************************************************************)
(* Exit pupil bounds                                                       *)
(***************************************************************************)
\* The side of BoundExitPupil's sampling grid (1024 in the source).
nSamples == 3

\* The point of the rear-element plane sampled by grid cell (x, y); the
\* plane's bounds are [-1.2 rearRadius, 1.2 rearRadius] on both axes.
PRear(elems, x, y) ==
  <<Lerp(FDiv(FAdd(FromInt(x), Lit(1, 2)), FromInt(nSamples)),
         FMul(FNeg(Lit(12, 10)), RearElementRadius(elems)),
         FMul(Lit(12, 10), RearElementRadius(elems))),
    Lerp(FDiv(FAdd(FromInt(y), Lit(1, 2)), FromInt(nSamples)),
         FMul(FNeg(Lit(12, 10)), RearElementRadius(elems)),
         FMul(Lit(12, 10), RearElementRadius(elems))),
    LensRearZ(elems)>>

\* Whether the ray from the film point to the point pRear leaves the lenses.
CellExits(elems, pFilm, pRear) ==
  TraceLensesFromFilm(elems,
    [o |-> <<pFilm[1], pFilm[2], Zero>>,
     d |-> VSub(pRear, <<pFilm[1], pFilm[2], Zero>>)]).ok

\* "Expand pupil bounds if ray makes it through the lens system"; exited
\* records the candidates that made it through.
PupilCell(elems, pFilm, pRear, acc) ==
  IF CellExits(elems, pFilm, pRear)
  THEN [pupilBounds |-> Union(acc.pupilBounds, <<pRear[1], pRear[2]>>),
        numExitingRays |-> acc.numExitingRays + 1,
        exited |-> acc.exited \cup {<<pRear[1], pRear[2]>>}]
  ELSE acc

\* The inner loop of BoundExitPupil, over x, for the row y.
RECURSIVE PupilRow(_, _, _, _, _)
PupilRow(elems, pFilm, y, x, acc) ==
  IF x >= nSamples THEN acc
  ELSE With(PupilCell(elems, pFilm, PRear(elems, x, y), acc),
            LAMBDA next : PupilRow(elems, pFilm, y, x + 1, next))

\* The outer loop of BoundExitPupil, over y.
RECURSIVE PupilLoop(_, _, _, _)
PupilLoop(elems, pFilm, y, acc) ==
  IF y >= nSamples THEN acc
  ELSE With(PupilRow(elems, pFilm, y, 0, acc),
            LAMBDA next : PupilLoop(elems, pFilm, y + 1, next))

\* The grid of BoundExitPupil scanned for the film point pFilm.
PupilScan(elems, pFilm) ==
  PupilLoop(elems, pFilm, 0,
            [pupilBounds |-> EmptyBounds, numExitingRays |-> 0, exited |-> {}])

\* BoundExitPupil without its fallback: the bounds of no point are expanded
\* and returned.
PupilResultNoFallback(rearRadius, r) ==
  Expand(r.pupilBounds, FDiv(FMul(Two, rearRadius), FromInt(nSamples)))

\* What BoundExitPupil returns after the scan r.
PupilResult(rearRadius, r) ==
  IF r.numExitingRays = 0
  THEN [pMin |-> <<FNeg(rearRadius), FNeg(rearRadius)>>,
        pMax |-> <<rearRadius, rearRadius>>]
  ELSE Expand(r.pupilBounds, FDiv(FMul(Two, rearRadius), FromInt(nSamples)))

\* BoundExitPupil expanding by half a cell of its grid, 1.2 rearRadius / nSamples.
BoundExitPupilHalfCell(elems, pFilm) ==
  IF PupilScan(elems, pFilm).numExitingRays = 0
  THEN PupilResult(RearElementRadius(elems), PupilScan(elems, pFilm))
  ELSE Expand(PupilScan(elems, pFilm).pupilBounds,
              FDiv(FMul(Lit(12, 10), RearElementRadius(elems)),
                   FromInt(nSamples)))

BoundExitPupil(elems, pFilm) ==
  PupilResult(RearElementRadius(elems), PupilScan(elems, pFilm))

(***************************************************************************)
(* Focusing                                                                *)
(***************************************************************************)
\* ComputeCardinalPoints(rIn, rOut, &pz, &fz)
ComputeCardinalPoints(rIn, rOut) ==
  [fz |-> FNeg(RayAt(rOut, FDiv(FNeg(rOut.o[1]), rOut.d[1]))[3]),
   pz |-> FNeg(RayAt(rOut, FDiv(FSub(rIn.o[1], rOut.o[1]), rOut.d[1]))[3])]

\* The cardinal points from the two traced rays; severe: a trace failed and
\* Severe() was called, which ends the process.
ThickLens(rScene, t1, rFilm, t2) ==
  IF ~t1.ok \/ ~t2.ok
  THEN [severe |-> TRUE, Pz |-> <<Zero, Zero>>, fz |-> <<Zero, Zero>>]
  ELSE With(ComputeCardinalPoints(rScene, t1.rOut), LAMBDA c1 :
       With(ComputeCardinalPoints(rFilm, t2.rOut), LAMBDA c2 :
         [severe |-> FALSE, Pz |-> <<c1.pz, c2.pz>>, fz |-> <<c1.fz, c2.fz>>]))

\* The two parallel rays at height x, from the scene and from the film.
ParallelRays(elems, rScene, rFilm) ==
  ThickLens(rScene, TraceLensesFromScene(elems, rScene),
            rFilm, TraceLensesFromFilm(elems, rFilm))

\* ComputeThickLensApproximation(Pz, fz)
ComputeThickLensApproximation(elems) ==
  With(FMul(Lit(5, 100), BoundExitPupil(elems, <<Zero, Zero>>).pMax[1]), LAMBDA x :
    ParallelRays(elems,
      [o |-> <<x, Zero, FAdd(LensFrontZ(elems), One)>>,
       d |-> <<Zero, Zero, FNeg(One)>>],
      [o |-> <<x, Zero, FSub(LensRearZ(elems), One)>>,
       d |-> <<Zero, Zero, One>>]))

\* The two radicands of FocusThickLens's conjugate equation.
Radicands(tl, zf) ==
  <<FSub(FSub(tl.Pz[2], zf), tl.Pz[1]),
    FSub(FSub(FSub(tl.Pz[2], zf), FMul(FromInt(4), FSub(tl.fz[1], tl.Pz[1]))),
         tl.Pz[1])>>

\* "Compute translation of lens, delta, to focus at focusDistance".
Delta(tl, zf, rad) ==
  FMul(Lit(1, 2),
       FAdd(FSub(FSub(tl.Pz[2], zf), FMul(FSqrt(rad[1]), FSqrt(rad[2]))),
            tl.Pz[1]))

\* The film distance for the thick lens tl.
ThickLensFocus(elems, tl, zf, rad) ==
  [severe |-> tl.severe, radicands |-> rad,
   value |-> FAdd(Back(elems).thickness, Delta(tl, zf, rad))]

\* FocusThickLens(focusDistance): the film distance.
FocusThickLens(elems, focusDistance) ==
  With(ComputeThickLensApproximation(elems), LAMBDA tl :
    ThickLensFocus(elems, tl, FMul(FNeg(One), focusDistance),
                   Radicands(tl, FMul(FNeg(One), focusDistance))))

\* "Compute distance zFocus where ray intersects the principal axis".
AxisCrossing(ray) ==
  With(RayAt(ray, FDiv(FNeg(ray.o[1]), ray.d[1]))[3], LAMBDA zFocus :
    IF FLt(zFocus, Zero) THEN PInf ELSE zFocus)

\* What FocusDistance returns after the trace tr of the focus ray.
FocusResult(tr) ==
  IF ~tr.ok THEN [failed |-> TRUE, z |-> PInf]
  ELSE [failed |-> FALSE, z |-> AxisCrossing(tr.rOut)]

\* FocusDistance(filmDistance): where the focus ray meets the axis; failed
\* when the ray did not make it through (Error is reported, Infinity returned).
FocusDistance(elems, filmDistance) ==
  With(FMul(Lit(1, 10), BoundExitPupil(elems, <<Zero, Zero>>).pMax[1]), LAMBDA lu :
    FocusResult(TraceLensesFromFilm(elems,
      [o |-> <<Zero, Zero, FSub(LensRearZ(elems), filmDistance)>>,
       d |-> <<lu, Zero, filmDistance>>])))

(***************************************************************************)
(* Film (film.h): the image plane the camera is given                      *)
(***************************************************************************)
Milli == Lit(1, 1000)

\* Film::GetPhysicalSize() for the diagonal and the aspect ratio y / x.
PhysicalSize(diagonal, aspect) ==
  With(FSqrt(FDiv(FMul(diagonal, diagonal), FAdd(One, FMul(aspect, aspect)))),
       LAMBDA x : <<x, FMul(aspect, x)>>)

\* A large format film: a 350 mm diagonal, 4 x 4 pixels.
film ==
  [diagonal |-> FMul(FromInt(350), Milli),
   fullResolution |-> <<FromInt(4), FromInt(4)>>,
   physicalSize |-> PhysicalSize(FMul(FromInt(350), Milli),
                                 FDiv(FromInt(4), FromInt(4)))]

(***************************************************************************)
(* Loading the lens description                                            *)
(***************************************************************************)
\* A loader without the clamp: at a stop always the requested diameter, even
\* when it is greater than the diameter the lens file encodes for the stop.
DiameterUnclamped(lensData, apertureDiameter, i) ==
  IF FEq(lensData[i], Zero) THEN apertureDiameter ELSE lensData[i + 3]

\* The diameter stored for the surface at lensData[i]: at an aperture stop
\* the requested one, unless it exceeds the diameter of the stop.
Diameter(lensData, apertureDiameter, i) ==
  IF FEq(lensData[i], Zero) /\ ~FGt(apertureDiameter, lensData[i + 3])
  THEN apertureDiameter
  ELSE lensData[i + 3]

\* Whether the surface at lensData[i] draws the clamping warning.
Clamped(lensData, apertureDiameter, i) ==
  FEq(lensData[i], Zero) /\ FGt(apertureDiameter, lensData[i + 3])

\* The interface pushed for the surface at lensData[i].
Element(lensData, apertureDiameter, i) ==
  [curvatureRadius |-> FMul(lensData[i], Milli),
   thickness |-> FMul(lensData[i + 1], Milli),
   eta |-> lensData[i + 2],
   apertureRadius |->
     FDiv(FMul(Diameter(lensData, apertureDiameter, i), Milli), Two)]

\* The loop of the constructor over lensData, four values per surface,
\* from value i (1-based) on: the interfaces pushed and the warnings given.
RECURSIVE LoadLoop(_, _, _, _)
LoadLoop(lensData, apertureDiameter, i, acc) ==
  IF i > Len(lensData) THEN acc
  ELSE LoadLoop(lensData, apertureDiameter, i + 4,
         [elems |-> Append(acc.elems, Element(lensData, apertureDiameter, i)),
          warnings |-> IF Clamped(lensData, apertureDiameter, i)
                       THEN Append(acc.warnings, <<"Warning", "clamping aperture">>)
                       ELSE acc.warnings])

LoadElements(lensData, apertureDiameter) ==
  LoadLoop(lensData, apertureDiameter, 1, [elems |-> <<>>, warnings |-> <<>>])

(***************************************************************************)
(* Sampling the exit pupil                                                 *)
(***************************************************************************)
\* (int)std::floor(a) for a finite a.
FloorInt(a) ==
  IF a[2] >= 0 THEN a[1] * 2 ^ a[2] ELSE a[1] \div 2 ^ (-a[2])

Min(a, b) == IF b < a THEN b ELSE a

\* rFilm of SampleExitPupil and ExitPupilPdf: the film point's distance
\* from the film's centre.
RFilm(pFilm) == FSqrt(FAdd(FMul(pFilm[1], pFilm[1]), FMul(pFilm[2], pFilm[2])))

\* The index (0-based) of the exit pupil bound for a film point.
PupilIndex(bounds, pFilm) ==
  Min(Len(bounds) - 1,
      FloorInt(FMul(FDiv(RFilm(pFilm), FDiv(film.diagonal, Two)),
                    FromInt(Len(bounds) - 1))))

\* The bucket's bound, joined with the next bucket's when there is one.
BucketBounds(bounds, pupilIndex) ==
  IF pupilIndex + 1 < Len(bounds)
  THEN UnionBounds(bounds[pupilIndex + 1], bounds[pupilIndex + 2])
  ELSE bounds[pupilIndex + 1]

PupilBounds(bounds, pFilm) == BucketBounds(bounds, PupilIndex(bounds, pFilm))

\* The point <<x, y>> turned by the angle whose sine and cosine are given.
Rotate(sinTheta, cosTheta, pt) ==
  <<FSub(FMul(cosTheta, pt[1]), FMul(sinTheta, pt[2])),
    FAdd(FMul(sinTheta, pt[1]), FMul(cosTheta, pt[2]))>>

\* The point pLens of the sampling area turned to the film point's angle.
RotateToFilm(pFilm, rFilm, pLens) ==
  Rotate(IF ~FEq(rFilm, Zero) THEN FDiv(pFilm[2], rFilm) ELSE Zero,
         IF ~FEq(rFilm, Zero) THEN FDiv(pFilm[1], rFilm) ELSE One, pLens)

\* The point pExitPupil turned back by the film point's angle.
RotateFromFilm(pFilm, rFilm, pExitPupil) ==
  Rotate(IF ~FEq(rFilm, Zero) THEN FDiv(FNeg(pFilm[2]), rFilm) ELSE Zero,
         IF ~FEq(rFilm, Zero) THEN FDiv(pFilm[1], rFilm) ELSE One, pExitPupil)

\* The third coordinate z given to a point of the plane.
Point3(pt, z) == <<pt[1], pt[2], z>>

SampleExitPupil(elems, bounds, pFilm, lensSample) ==
  Point3(RotateToFilm(pFilm, RFilm(pFilm),
                      BoundsLerp(PupilBounds(bounds, pFilm), lensSample)),
         LensRearZ(elems))

\* The density over the sampling area pupilBounds at the point pRot.
PdfInside(pRot, pupilBounds) ==
  IF Inside(pRot, pupilBounds) THEN FDiv(One, Area(pupilBounds)) ELSE Zero

ExitPupilPdf(bounds, pFilm, pExitPupil) ==
  PdfInside(RotateFromFilm(pFilm, RFilm(pFilm), pExitPupil),
            PupilBounds(bounds, pFilm))

(***************************************************************************)
(* Inputs                                                                  *)
(***************************************************************************)
\* A lens description file: its values in mm, as ReadFloatFile returns them.
F(n) == FromInt(n)

\* A biconvex lens of a large format camera (mm).
LensA == <<F(300), F(50), Lit(3, 2), F(200),
           F(-300), F(400), One, F(200)>>
\* The same lens with an aperture stop of 100 mm behind it.
LensB == <<F(300), F(50), Lit(3, 2), F(200),
           F(-300), F(20), One, F(200),
           Zero, F(380), Zero, F(100)>>
\* The lens with a stop of 60 mm in front of it.
LensC == <<Zero, F(200), Zero, F(60),
           F(300), F(50), Lit(3, 2), F(200),
           F(-300), F(400), One, F(200)>>
\* A lens whose front element is far narrower than its rear element.
LensD == <<F(300), F(50), Lit(3, 2), Lit(1, 2),
           F(-300), F(400), One, F(200)>>
\* The lens 1 m in front of the film, behind a stop of 60 mm that is 200 mm
\* in front of it.
LensV == <<Zero, F(200), Zero, F(60),
           F(300), F(50), Lit(3, 2), F(200),
           F(-300), F(1000), One, F(200)>>
\* A thick biconvex element with the film on its rear vertex (mm): the film
\* distance that focuses it at 155/512 m is 0.
LensS == <<F(20), F(81), Lit(3, 2), F(30),
           F(-20), Zero, One, F(30)>>
\* The biconvex lens with the air behind it written as index 0.
LensZ == <<F(300), F(50), Lit(3, 2), F(200),
           F(-300), F(400), Zero, F(200)>>
\* A strongly curved lens.
LensT == <<F(120), F(120), Lit(3, 2), F(200),
           F(-120), F(300), One, F(200)>>

\* The parameters of CreateRealisticCamera: the "lensfile" name with what
\* ReadFloatFile gives for it, "aperturediameter", "focusdistance",
\* "simpleweighting".
Params(name, readable, data, aperture, focus, simple) ==
  [lensFile |-> name, readable |-> readable, lensData |-> data,
   apertureDiameter |-> aperture, focusDistance |-> focus,
   simpleWeighting |-> simple]

ParamSets ==
  { Params("", FALSE, <<>>, One, F(10), TRUE),
    Params("missing.dat", FALSE, <<>>, One, F(10), TRUE),
    Params("excess.dat", TRUE, SubSeq(LensA, 1, 5), One, F(10), TRUE),
    Params("a.dat", TRUE, LensA, F(50), F(10), TRUE),
    Params("a.dat", TRUE, LensA, F(50), Lit(1, 2), FALSE),
    Params("b.dat", TRUE, LensB, F(50), F(10), FALSE),
    Params("b.dat", TRUE, LensB, F(120), F(10), TRUE),
    Params("c.dat", TRUE, LensC, F(40), F(10), FALSE),
    Params("d.dat", TRUE, LensD, One, F(10), TRUE),
    Params("v.dat", TRUE, LensV, F(8), Lit(14, 10), TRUE),
    Params("s.dat", TRUE, LensS, F(20), Lit(155, 512), TRUE) }


\* CameraSample: a raster position on the film and a lens sample.
CameraSamples ==
  { [pFilm |-> <<x, F(2)>>, pLens |-> <<u, v>>] :
      x \in {F(2), F(4)}, u \in {Zero, Lit(1, 2)}, v \in {Lit(1, 2), One} }
    \cup { [pFilm |-> <<F(1), Lit(2, 3)>>, pLens |-> <<Zero, Lit(1, 2)>>] }

\* How many turns a while loop of FocusBinarySearch takes in the model (the
\* code has no such limit), and how many rays are generated.
MaxExpand == 400
MaxRays == 2
\* The number of exit pupil bounds (64 in the source).
nBounds == 3

VARIABLES
  pc,                 \* where construction stands
  params,             \* the parameters given to CreateRealisticCamera
  messages,           \* what Error, Warning and Severe reported
  camera,             \* what CreateRealisticCamera returned
  elementInterfaces,
  exitPupilBounds,
  filmDistanceLower, filmDistanceUpper, iter,   \* FocusBinarySearch's locals
  fb,                 \* the constructor's local fb
  tasks,              \* ParallelFor: each index is "todo", "computed" (its
                      \* bound b not yet stored) or "done"; writes counts the
                      \* stores into its bucket
  totalRays, vignettedRays,
  calls,              \* how many times GenerateRay was called
  result              \* what the last call on the camera returned

vars == <<pc, params, messages, camera, elementInterfaces, exitPupilBounds,
          filmDistanceLower, filmDistanceUpper, iter, fb, tasks,
          totalRays, vignettedRays, calls, result>>

focusVars == <<filmDistanceLower, filmDistanceUpper, iter, fb>>
rayVars == <<totalRays, vignettedRays, calls, result>>

NoResult == [op |-> "none"]

Init ==
  /\ pc = "create"
  /\ params \in ParamSets
  /\ messages = <<>>
  /\ camera = "none"
  /\ elementInterfaces = <<>>
  /\ exitPupilBounds = <<>>
  /\ filmDistanceLower = Zero
  /\ filmDistanceUpper = Zero
  /\ iter = 0
  /\ fb = Zero
  /\ tasks = <<>>
  /\ totalRays = 0
  /\ vignettedRays = 0
  /\ calls = 0
  /\ result = NoResult

(***************************************************************************)
(* CreateRealisticCamera and the constructor                               *)
(***************************************************************************)
\* CreateRealisticCamera without a lens file: Error, and NULL is returned.
CreateNoLensFile ==
  /\ pc = "create"
  /\ params.lensFile = ""
  /\ messages' = Append(messages, <<"Error", "No lens description file supplied!">>)
  /\ camera' = "NULL"
  /\ pc' = "done"
  /\ UNCHANGED <<params, elementInterfaces, exitPupilBounds, focusVars, tasks, rayVars>>

\* The constructor returns early when the file cannot be read; the object
\* is constructed all the same and CreateRealisticCamera returns it.
CtorReadError ==
  /\ pc = "create"
  /\ params.lensFile # ""
  /\ ~params.readable
  /\ messages' = Append(messages, <<"Error", "Error reading lens specification file">>)
  /\ camera' = "object"
  /\ pc' = "done"
  /\ UNCHANGED <<params, elementInterfaces, exitPupilBounds, focusVars, tasks, rayVars>>

\* The same when the number of values is no multiple of four.
CtorExcessValues ==
  /\ pc = "create"
  /\ params.lensFile # ""
  /\ params.readable
  /\ Len(params.lensData) % 4 # 0
  /\ messages' = Append(messages, <<"Error", "Excess values in lens specification file">>)
  /\ camera' = "object"
  /\ pc' = "done"
  /\ UNCHANGED <<params, elementInterfaces, exitPupilBounds, focusVars, tasks, rayVars>>

\* The interfaces l.elems are stored and the warnings l.warnings given.
Loaded(l) ==
  /\ elementInterfaces' = l.elems
  /\ messages' = messages \o l.warnings

\* The element interfaces are loaded.
CtorLoad ==
  /\ pc = "create"
  /\ params.lensFile # ""
  /\ params.readable
  /\ Len(params.lensData) % 4 = 0
  /\ Loaded(LoadElements(params.lensData, params.apertureDiameter))
  /\ pc' = "focus"
  /\ UNCHANGED <<params, camera, exitPupilBounds, focusVars, tasks, rayVars>>

\* Severe(): the message, and the process ends.
Severe ==
  /\ messages' = Append(messages, <<"Severe", "Unable to trace ray for thick lens approximation">>)
  /\ pc' = "aborted"

\* filmDistanceLower = filmDistanceUpper = the thick lens estimate f.
SeedBracket(f) ==
  IF f.severe
  THEN Severe /\ UNCHANGED <<filmDistanceLower, filmDistanceUpper>>
  ELSE /\ filmDistanceLower' = f.value
       /\ filmDistanceUpper' = f.value
       /\ pc' = "lower"
       /\ UNCHANGED messages

\* FocusBinarySearch begins: both ends of the bracket are the thick lens
\* estimate.
BinarySearchSeed ==
  /\ pc = "focus"
  /\ SeedBracket(FocusThickLens(elementInterfaces, params.focusDistance))
  /\ UNCHANGED <<params, camera, elementInterfaces, exitPupilBounds, iter, fb, tasks, rayVars>>

\* What FocusDistance reports when its ray is vignetted.
FocusMessages(fd) ==
  IF fd.failed
  THEN Append(messages, <<"Error", "Focus ray didn't make it through the lenses">>)
  ELSE messages

\* One test of the first while loop, FocusDistance having returned fd.
WidenLower(fd) ==
  /\ messages' = FocusMessages(fd)
  /\ IF FGt(fd.z, params.focusDistance)
     THEN /\ iter < MaxExpand
          /\ filmDistanceLower' = FMul(filmDistanceLower, Lit(1005, 1000))
          /\ iter' = iter + 1
          /\ pc' = pc
     ELSE /\ iter' = 0
          /\ pc' = "upper"
          /\ UNCHANGED filmDistanceLower

\* while (FocusDistance(filmDistanceLower) > focusDistance) filmDistanceLower *= 1.005f
ExpandLower ==
  /\ pc = "lower"
  /\ WidenLower(FocusDistance(elementInterfaces, filmDistanceLower))
  /\ UNCHANGED <<params, camera, elementInterfaces, exitPupilBounds,
                 filmDistanceUpper, fb, tasks, rayVars>>

\* One test of the second while loop, FocusDistance having returned fd.
WidenUpper(fd) ==
  /\ messages' = FocusMessages(fd)
  /\ IF FLt(fd.z, params.focusDistance)
     THEN /\ iter < MaxExpand
          /\ filmDistanceUpper' = FDiv(filmDistanceUpper, Lit(1005, 1000))
          /\ iter' = iter + 1
          /\ pc' = pc
     ELSE /\ iter' = 0
          /\ pc' = "bisect"
          /\ UNCHANGED filmDistanceUpper

\* while (FocusDistance(filmDistanceUpper) < focusDistance) filmDistanceUpper /= 1.005f
ExpandUpper ==
  /\ pc = "upper"
  /\ WidenUpper(FocusDistance(elementInterfaces, filmDistanceUpper))
  /\ UNCHANGED <<params, camera, elementInterfaces, exitPupilBounds,
                 filmDistanceLower, fb, tasks, rayVars>>

\* The iterations of the binary search.
BisectIters == 20

\* The for loop body moving the wrong end of the bracket to fmid.
HalveSwapped(fmid, midFocus) ==
  /\ messages' = FocusMessages(midFocus)
  /\ IF FLt(midFocus.z, params.focusDistance)
     THEN filmDistanceUpper' = fmid /\ UNCHANGED filmDistanceLower
     ELSE filmDistanceLower' = fmid /\ UNCHANGED filmDistanceUpper

\* The bracket halved at fmid, FocusDistance(fmid) having returned midFocus.
Halve(fmid, midFocus) ==
  /\ messages' = FocusMessages(midFocus)
  /\ IF FLt(midFocus.z, params.focusDistance)
     THEN filmDistanceLower' = fmid /\ UNCHANGED filmDistanceUpper
     ELSE filmDistanceUpper' = fmid /\ UNCHANGED filmDistanceLower

\* fmid of the bracket.
Mid(lower, upper) == FMul(Lit(1, 2), FAdd(lower, upper))

Bisect ==
  /\ pc = "bisect"
  /\ iter < BisectIters
  /\ Halve(Mid(filmDistanceLower, filmDistanceUpper),
           FocusDistance(elementInterfaces,
                         Mid(filmDistanceLower, filmDistanceUpper)))
  /\ iter' = iter + 1
  /\ UNCHANGED <<pc, params, camera, elementInterfaces, exitPupilBounds, fb,
                 tasks, rayVars>>

\* FocusBinarySearch returns; the constructor keeps the value in fb and
\* reports FocusDistance(fb).
BinarySearchReturn ==
  /\ pc = "bisect"
  /\ iter = BisectIters
  /\ fb' = Mid(filmDistanceLower, filmDistanceUpper)
  /\ messages' = FocusMessages(FocusDistance(elementInterfaces, fb'))
  /\ iter' = 0
  /\ pc' = "thicklens"
  /\ UNCHANGED <<params, camera, elementInterfaces, exitPupilBounds,
                 filmDistanceLower, filmDistanceUpper, tasks, rayVars>>

\* The thickness written to the first interface instead of the last.
WithFrontThickness(elems, thickness) ==
  [elems EXCEPT ![1].thickness = thickness]

\* The interfaces with the thickness of the last one set to thickness.
WithBackThickness(elems, thickness) ==
  [elems EXCEPT ![Len(elems)].thickness = thickness]

\* The thick lens result f is stored as the last thickness;
\* exitPupilBounds.resize(nSamples), and the ParallelFor begins.
Install(f) ==
  IF f.severe
  THEN Severe /\ UNCHANGED <<elementInterfaces, exitPupilBounds, tasks>>
  ELSE /\ elementInterfaces' = WithBackThickness(elementInterfaces, f.value)
       /\ messages' = FocusMessages(FocusDistance(elementInterfaces', f.value))
       /\ exitPupilBounds' = [i \in 1..nBounds |-> EmptyBounds]
       /\ tasks' = [i \in 1..nBounds |->
                      [st |-> "todo", b |-> EmptyBounds, writes |-> 0]]
       /\ pc' = "pupil"

\* elementInterfaces.back().thickness = FocusThickLens(focusDistance)
CtorFocus ==
  /\ pc = "thicklens"
  /\ Install(FocusThickLens(elementInterfaces, params.focusDistance))
  /\ UNCHANGED <<params, camera, focusVars, rayVars>>

\* The film point of bucket i (0-based): (i / (nSamples - 1) * diagonal / 2, 0).
BucketPoint(i) ==
  <<FDiv(FMul(FDiv(FromInt(i), FromInt(nBounds - 1)), film.diagonal), Two), Zero>>

\* ParallelFor: a thread runs the loop body for index i (1-based here):
\* it computes the bound ...
TaskCompute(i) ==
  /\ pc = "pupil"
  /\ tasks[i].st = "todo"
  /\ tasks' = [tasks EXCEPT ![i].st = "computed",
                            ![i].b = BoundExitPupil(elementInterfaces,
                                                    BucketPoint(i - 1))]
  /\ UNCHANGED <<pc, params, messages, camera, elementInterfaces,
                 exitPupilBounds, focusVars, rayVars>>

\* The bound of index i stored in the bucket of the next index.
TaskStoreShifted(i) ==
  /\ pc = "pupil"
  /\ tasks[i].st = "computed"
  /\ exitPupilBounds' = [exitPupilBounds EXCEPT ![(i % nBounds) + 1] = tasks[i].b]
  /\ tasks' = [tasks EXCEPT ![i].st = "done", ![(i % nBounds) + 1].writes = @ + 1]
  /\ UNCHANGED <<pc, params, messages, camera, elementInterfaces, focusVars,
                 rayVars>>

\* ... and stores it in exitPupilBounds[i].
TaskStore(i) ==
  /\ pc = "pupil"
  /\ tasks[i].st = "computed"
  /\ exitPupilBounds' = [exitPupilBounds EXCEPT ![i] = tasks[i].b]
  /\ tasks' = [tasks EXCEPT ![i].st = "done", ![i].writes = @ + 1]
  /\ UNCHANGED <<pc, params, messages, camera, elementInterfaces, focusVars,
                 rayVars>>

\* ParallelFor returns when every index has run; the constructor returns and
\* CreateRealisticCamera hands the camera out.
CtorReturn ==
  /\ pc = "pupil"
  /\ \A i \in 1..nBounds : tasks[i].st = "done"
  /\ camera' = "object"
  /\ pc' = "done"
  /\ UNCHANGED <<params, messages, elementInterfaces, exitPupilBounds,
                 focusVars, tasks, rayVars>>

(***************************************************************************)
(* GenerateRay                                                             *)
(***************************************************************************)
\* "Find point on film corresponding to sample.pFilm".
FilmPoint(sample) ==
  <<FMul(FNeg(FDiv(FSub(sample.pFilm[1], FDiv(film.fullResolution[1], Two)),
                   film.fullResolution[1])),
         film.physicalSize[1]),
    FMul(FDiv(FSub(sample.pFilm[2], FDiv(film.fullResolution[2], Two)),
              film.fullResolution[2]),
         film.physicalSize[2]),
    Zero>>

\* costheta^4 for costheta = Normalize(rFilm.d).z
Cos4(costheta) == FMul(FMul(costheta, costheta), FMul(costheta, costheta))

\* "Return weighting for RealisticCamera ray".
Weight(elems, bounds, simpleWeighting, pFilm, pRear, rFilm) ==
  IF simpleWeighting
  THEN Cos4(Normalize(rFilm.d)[3])
  ELSE FDiv(Cos4(Normalize(rFilm.d)[3]),
            FMul(FMul(LensRearZ(elems), LensRearZ(elems)),
                 ExitPupilPdf(bounds, pFilm, pRear)))

\* What GenerateRay returns once rFilm was traced: the weight and the ray in
\* camera space, its direction normalized.
Traced(elems, bounds, simpleWeighting, sample, pFilm, pRear, rFilm, tr) ==
  [op |-> "GenerateRay", outcome |-> "returned", sample |-> sample,
   pFilm |-> pFilm, pRear |-> pRear, rFilm |-> rFilm, traceOk |-> tr.ok,
   ray |-> IF tr.ok THEN [o |-> tr.rOut.o, d |-> Normalize(tr.rOut.d)]
           ELSE [o |-> <<Zero, Zero, Zero>>, d |-> <<Zero, Zero, Zero>>],
   weight |-> IF tr.ok
              THEN Weight(elems, bounds, simpleWeighting, pFilm, pRear, rFilm)
              ELSE Zero]

\* The ray rFilm from the film point to the sampled point pRear, traced.
Aimed(elems, bounds, simpleWeighting, sample, pFilm, pRear, rFilm) ==
  Traced(elems, bounds, simpleWeighting, sample, pFilm, pRear, rFilm,
         TraceLensesFromFilm(elems, rFilm))

\* The point pRear of the exit pupil sampled for pFilm.
Sampled(elems, bounds, simpleWeighting, sample, pFilm, pRear) ==
  Aimed(elems, bounds, simpleWeighting, sample, pFilm, pRear,
        [o |-> pFilm, d |-> VSub(pRear, pFilm)])

\* The value of GenerateRay(sample) for a camera with a lens system.
GenerateRayValue(elems, bounds, simpleWeighting, sample) ==
  With(FilmPoint(sample), LAMBDA pFilm :
    Sampled(elems, bounds, simpleWeighting, sample, pFilm,
            SampleExitPupil(elems, bounds, pFilm, sample.pLens)))

\* The counters when a vignetted ray is not counted.
CountedTotalOnly(r) ==
  /\ totalRays' = totalRays + 1
  /\ UNCHANGED vignettedRays
  /\ result' = r

\* The counters after a call that returned r.
Counted(r) ==
  /\ totalRays' = totalRays + 1
  /\ vignettedRays' = IF r.traceOk THEN vignettedRays ELSE vignettedRays + 1
  /\ result' = r

\* GenerateRay(sample, &ray) on a camera whose construction ran to its end.
GenerateRay(sample) ==
  /\ pc = "done"
  /\ camera = "object"
  /\ Len(elementInterfaces) > 0
  /\ calls < MaxRays
  /\ calls' = calls + 1
  /\ Counted(GenerateRayValue(elementInterfaces, exitPupilBounds,
                              params.simpleWeighting, sample))
  /\ UNCHANGED <<pc, params, messages, camera, elementInterfaces,
                 exitPupilBounds, focusVars, tasks>>

\* What a call can do after reading exitPupilBounds[-1] and back() of an
\* empty vector: end the process, or go on with the values found there; the
\* loop of TraceLensesFromFilm then runs over no surface and succeeds.
Garbage(sample) ==
  { [op |-> "GenerateRay", outcome |-> o, sample |-> sample,
     pFilm |-> FilmPoint(sample), pRear |-> <<g, g, g>>,
     rFilm |-> [o |-> FilmPoint(sample), d |-> <<g, g, g>>], traceOk |-> TRUE,
     ray |-> [o |-> FilmPoint(sample), d |-> <<g, g, g>>], weight |-> g] :
       o \in {"crashed", "returned"}, g \in {One, NaN} }

\* GenerateRay(sample, &ray) on a camera whose constructor returned early:
\* elementInterfaces and exitPupilBounds are empty.
GenerateRayUnloaded(sample) ==
  /\ pc = "done"
  /\ camera = "object"
  /\ Len(elementInterfaces) = 0
  /\ calls < MaxRays
  /\ calls' = calls + 1
  /\ totalRays' = totalRays + 1
  /\ UNCHANGED vignettedRays
  /\ result' \in Garbage(sample)
  /\ pc' = IF result'.outcome = "crashed" THEN "aborted" ELSE pc
  /\ UNCHANGED <<params, messages, camera, elementInterfaces,
                 exitPupilBounds, focusVars, tasks>>

Next == CreateNoLensFile \/ CtorReadError \/ CtorExcessValues \/ CtorLoad
        \/ BinarySearchSeed \/ ExpandLower \/ ExpandUpper \/ Bisect
        \/ BinarySearchReturn \/ CtorFocus
        \/ (\E i \in 1..nBounds : TaskCompute(i) \/ TaskStore(i))
        \/ CtorReturn
        \/ (\E sample \in CameraSamples :
              GenerateRay(sample) \/ GenerateRayUnloaded(sample))

Spec == Init /\ [][Next]_vars

(***************************************************************************)
(* The camera's functions applied to given arguments                       *)
(***************************************************************************)
\* The lens descriptions whose interfaces the functions are applied to.
QueryParams ==
  { Params("a.dat", TRUE, LensA, F(50), F(10), FALSE),
    Params("a.dat", TRUE, LensA, F(50), Lit(1, 2), FALSE),
    Params("b.dat", TRUE, LensB, F(50), F(10), FALSE),
    Params("c.dat", TRUE, LensC, F(40), F(10), FALSE),
    Params("t.dat", TRUE, LensT, F(40), F(10), FALSE),
    Params("z.dat", TRUE, LensZ, F(50), F(10), FALSE) }

\* The interfaces as the constructor leaves them for the parameters p: loaded,
\* and the last thickness set by FocusThickLens.
Focused(p) ==
  With(LoadElements(p.lensData, p.apertureDiameter).elems, LAMBDA elems :
    WithBackThickness(elems, FocusThickLens(elems, p.focusDistance).value))

\* The exit pupil bounds as the ParallelFor leaves them.
Buckets(elems) ==
  [i \in 1..nBounds |-> BoundExitPupil(elems, BucketPoint(i - 1))]

\* The states in which the functions are called: during construction, the
\* interfaces as loaded; after it, the interfaces focused and the bounds
\* computed.  The functions are const: one call is made in each behaviour.
InitQuery ==
  /\ params \in QueryParams
  /\ \/ /\ pc = "focus"
        /\ camera = "none"
        /\ elementInterfaces =
             LoadElements(params.lensData, params.apertureDiameter).elems
        /\ exitPupilBounds = <<>>
     \/ /\ pc = "done"
        /\ camera = "object"
        /\ ~FocusThickLens(
               LoadElements(params.lensData, params.apertureDiameter).elems,
               params.focusDistance).severe
        /\ elementInterfaces = Focused(params)
        /\ exitPupilBounds = Buckets(elementInterfaces)
  /\ messages = <<>>
  /\ filmDistanceLower = Zero
  /\ filmDistanceUpper = Zero
  /\ iter = 0
  /\ fb = Zero
  /\ tasks = <<>>
  /\ totalRays = 0
  /\ vignettedRays = 0
  /\ calls = 0
  /\ result = NoResult

\* Rays from the film plane, in camera space: from the height x towards the
\* rear element, dx off the parallel to the axis (x, dx in mm).
FilmRays(elems) ==
  { [o |-> <<FMul(x, Milli), Zero, Zero>>,
     d |-> <<FMul(dx, Milli), Zero, LensRearZ(elems)>>] :
       x \in {F(0), F(20), F(90), F(150), F(400)},
       dx \in {F(0), F(-80), F(80)} }

\* Rays from the film plane that point away from the lens.
AwayRays(elems) ==
  { [o |-> <<FMul(F(20), Milli), Zero, Zero>>,
     d |-> <<FMul(dx, Milli), Zero, FNeg(LensRearZ(elems))>>] :
       dx \in {F(0), F(80)} }

\* Rays from 100 mm in front of the first surface.
SceneRays(elems) ==
  { [o |-> <<FMul(x, Milli), Zero, FAdd(LensFrontZ(elems), FMul(F(100), Milli))>>,
     d |-> <<FMul(dx, Milli), Zero, FNeg(FMul(F(100), Milli))>>] :
       x \in {F(0), F(20), F(90), F(150), F(400)},
       dx \in {F(0), F(-80), F(80)} }

\* Points of the film plane (m), the last one beyond the film's corner, and
\* lens samples.
FilmPoints ==
  { <<Zero, Zero>>, <<FMul(F(30), Milli), FMul(F(40), Milli)>>,
    <<FMul(F(-50), Milli), FMul(F(120), Milli)>>, <<FMul(F(170), Milli), Zero>>,
    <<FMul(F(300), Milli), Zero>> }

LensSamples == { <<u, v>> : u, v \in {Zero, Lit(1, 3), Lit(1, 2), One} }

\* What a tracer returned for the ray.
TraceCall(op, ray, tr) ==
  [op |-> op, ray |-> ray, ok |-> tr.ok, rOut |-> tr.rOut, steps |-> tr.steps]

CallTraceLensesFromFilm(ray) ==
  /\ result = NoResult
  /\ result' = TraceCall("TraceLensesFromFilm", ray,
                         TraceLensesFromFilm(elementInterfaces, ray))
  /\ UNCHANGED <<pc, params, messages, camera, elementInterfaces,
                 exitPupilBounds, focusVars, tasks, totalRays, vignettedRays,
                 calls>>

CallTraceLensesFromScene(ray) ==
  /\ result = NoResult
  /\ result' = TraceCall("TraceLensesFromScene", ray,
                         TraceLensesFromScene(elementInterfaces, ray))
  /\ UNCHANGED <<pc, params, messages, camera, elementInterfaces,
                 exitPupilBounds, focusVars, tasks, totalRays, vignettedRays,
                 calls>>

\* BoundExitPupil(pFilm), with the scan of the grid it returned from.
CallBoundExitPupil(pFilm) ==
  /\ result = NoResult
  /\ result' = [op |-> "BoundExitPupil", pFilm |-> pFilm,
                bounds |-> BoundExitPupil(elementInterfaces, pFilm),
                scan |-> PupilScan(elementInterfaces, pFilm)]
  /\ UNCHANGED <<pc, params, messages, camera, elementInterfaces,
                 exitPupilBounds, focusVars, tasks, totalRays, vignettedRays,
                 calls>>

\* The density ExitPupilPdf gives to the point pRear that SampleExitPupil
\* returned.
PupilSample(pFilm, lensSample, pRear) ==
  [op |-> "SampleExitPupil", pFilm |-> pFilm, lensSample |-> lensSample,
   pRear |-> pRear,
   pdf |-> ExitPupilPdf(exitPupilBounds, <<pFilm[1], pFilm[2], Zero>>, pRear)]

\* SampleExitPupil(pFilm, lensSample), then ExitPupilPdf(pFilm, pRear), as
\* GenerateRay calls them.
CallSampleExitPupil(pFilm, lensSample) ==
  /\ pc = "done"
  /\ result = NoResult
  /\ result' = PupilSample(pFilm, lensSample,
                 SampleExitPupil(elementInterfaces, exitPupilBounds, pFilm,
                                 lensSample))
  /\ UNCHANGED <<pc, params, messages, camera, elementInterfaces,
                 exitPupilBounds, focusVars, tasks, totalRays, vignettedRays,
                 calls>>

NextQuery ==
  \/ \E ray \in FilmRays(elementInterfaces) : CallTraceLensesFromFilm(ray)
  \/ \E ray \in AwayRays(elementInterfaces) : CallTraceLensesFromFilm(ray)
  \/ \E ray \in SceneRays(elementInterfaces) : CallTraceLensesFromScene(ray)
  \/ \E i \in 0..(nBounds - 1) : CallBoundExitPupil(BucketPoint(i))
  \/ \E pFilm \in FilmPoints, lensSample \in LensSamples :
       CallSampleExitPupil(pFilm, lensSample)

SpecQuery == InitQuery /\ [][NextQuery]_vars

(***************************************************************************)
(* The claims                                                              *)
(***************************************************************************)
\* The interfaces as the constructor loaded them from params.
LoadedInterfaces == LoadElements(params.lensData, params.apertureDiameter).elems

\* C1: every call of GenerateRay adds one to the count of all rays; when
\* the trace of the sampled film ray fails, the weight returned is exactly 0
\* and the count of vignetted rays grows by exactly one; when it succeeds
\* that count is unchanged.
C1_GenerateRayCounts ==
  [][calls' = calls + 1 =>
       /\ totalRays' = totalRays + 1
       /\ result'.op = "GenerateRay"
       /\ Len(elementInterfaces) > 0 =>
            result'.traceOk =
              TraceLensesFromFilm(elementInterfaces, result'.rFilm).ok
       /\ result'.traceOk => vignettedRays' = vignettedRays
       /\ ~result'.traceOk =>
            /\ vignettedRays' = vignettedRays + 1
            /\ result'.weight = Zero]_vars

\* C1's case: a second call whose ray was vignetted, after one whose ray made
\* it through.
C1_Witness ==
  /\ result.op = "GenerateRay"
  /\ ~result.traceOk
  /\ result.weight = Zero
  /\ totalRays = 2
  /\ vignettedRays = 1

\* The messages of a fatal configuration error.
ConfigurationErrors ==
  { <<"Error", "No lens description file supplied!">>,
    <<"Error", "Error reading lens specification file">>,
    <<"Error", "Excess values in lens specification file">> }

\* C3: after a fatal configuration error (no lens file, an unreadable one,
\* a number of values that is no multiple of 4) no camera object is handed
\* out, and neither the focus step nor the exit pupil computation has run.
C3_FatalErrorNoCamera ==
  (\E k \in 1..Len(messages) : messages[k] \in ConfigurationErrors) =>
    /\ camera # "object"
    /\ elementInterfaces = <<>>
    /\ exitPupilBounds = <<>>
    /\ pc \in {"done", "aborted"}

\* The diameter (mm) the lens description gives surface i, and its radius of
\* curvature.
EncodedDiameter(i) == params.lensData[4 * (i - 1) + 4]
EncodedRadius(i) == params.lensData[4 * (i - 1) + 1]

\* The aperture radius (m) of a diameter in mm.
HalfInMetres(diameter) == FDiv(FMul(diameter, Milli), Two)

\* C4: once the lens description is loaded, an aperture stop (radius of
\* curvature 0) holds the encoded diameter when the requested one is larger
\* (and the warning was given), else the requested one; every other surface
\* holds its encoded diameter; so no stop is wider than its encoded diameter;
\* the warning is given only for a clamp.
C4_ApertureClamp ==
  Len(elementInterfaces) > 0 =>
    /\ Len(elementInterfaces) * 4 = Len(params.lensData)
    /\ \A i \in 1..Len(elementInterfaces) :
         IF EncodedRadius(i) = Zero
         THEN /\ FGt(params.apertureDiameter, EncodedDiameter(i)) =>
                   /\ elementInterfaces[i].apertureRadius =
                        HalfInMetres(EncodedDiameter(i))
                   /\ \E k \in 1..Len(messages) : messages[k][1] = "Warning"
              /\ ~FGt(params.apertureDiameter, EncodedDiameter(i)) =>
                   elementInterfaces[i].apertureRadius =
                     HalfInMetres(params.apertureDiameter)
              /\ FLe(elementInterfaces[i].apertureRadius,
                     HalfInMetres(EncodedDiameter(i)))
         ELSE elementInterfaces[i].apertureRadius =
                HalfInMetres(EncodedDiameter(i))
    /\ (\E k \in 1..Len(messages) : messages[k][1] = "Warning") =>
         \E i \in 1..Len(elementInterfaces) :
           /\ EncodedRadius(i) = Zero
           /\ FGt(params.apertureDiameter, EncodedDiameter(i))

\* C4's case: a camera constructed with a requested aperture larger than its
\* stop.
C4_Witness ==
  /\ pc = "done"
  /\ camera = "object"
  /\ \E i \in 1..Len(elementInterfaces) :
       /\ EncodedRadius(i) = Zero
       /\ FGt(params.apertureDiameter, EncodedDiameter(i))
       /\ elementInterfaces[i].apertureRadius = HalfInMetres(EncodedDiameter(i))

\* Whether the conjugate equation of FocusThickLens has a negative radicand
\* for the loaded lens and the requested focus distance.
NegativeRadicand ==
  With(ComputeThickLensApproximation(LoadedInterfaces), LAMBDA tl :
    /\ ~tl.severe
    /\ \E k \in 1..2 :
         FLt(Radicands(tl, FNeg(params.focusDistance))[k], Zero))

\* C5: when the conjugate equation has a negative radicand, construction
\* does not go on past the focus step without an error reported, and the
\* last thickness is not overwritten with the result of the failed solve.
C5_NegativeRadicandIsFatal ==
  (pc \in {"pupil", "done"} /\ Len(elementInterfaces) > 0 /\ NegativeRadicand) =>
    /\ \E k \in 1..Len(messages) : messages[k][1] \in {"Error", "Severe"}
    /\ Back(elementInterfaces).thickness = Back(LoadedInterfaces).thickness

\* The interfaces a and b differ at most in the thickness of the last one.
SameButBackThickness(a, b) ==
  /\ Len(a) = Len(b)
  /\ \A i \in 1..Len(a) :
       /\ a[i].curvatureRadius = b[i].curvatureRadius
       /\ a[i].eta = b[i].eta
       /\ a[i].apertureRadius = b[i].apertureRadius
       /\ i < Len(a) => a[i].thickness = b[i].thickness

\* C6: after loading, a step changes the interfaces only if it is the focus
\* step of the constructor, which changes the last thickness and nothing
\* else and is not taken again; the binary search, the exit pupil tasks and
\* GenerateRay leave the interfaces as they are, and no exit pupil bucket
\* changes once construction has finished.
C6_WritesAfterLoading ==
  [][/\ (pc # "create" /\ elementInterfaces' # elementInterfaces) =>
          /\ pc = "thicklens"
          /\ pc' = "pupil"
          /\ SameButBackThickness(elementInterfaces, elementInterfaces')
     /\ pc \in {"pupil", "done", "aborted"} => pc' \in {"pupil", "done", "aborted"}
     /\ pc \in {"lower", "upper", "bisect", "pupil", "done", "aborted"} =>
          elementInterfaces' = elementInterfaces
     /\ pc \in {"done", "aborted"} => exitPupilBounds' = exitPupilBounds]_vars

\* C6's case: rays were generated by a camera whose focus step had changed
\* the last thickness.
C6_Witness ==
  /\ pc = "done"
  /\ calls = MaxRays
  /\ Len(elementInterfaces) > 0
  /\ Back(elementInterfaces).thickness # Back(LoadedInterfaces).thickness
  /\ SameButBackThickness(elementInterfaces, LoadedInterfaces)

\* C7: while the tasks run, the bucket of a task that has stored is the
\* bound of that bucket's own film point and was written once, and the
\* bucket of every other task is still untouched; so whatever the order of
\* the tasks, when the loop is over every bucket was written exactly once
\* and holds the bound of its own film point.
C7_OneTaskPerBucket ==
  (pc \in {"pupil", "done"} /\ Len(tasks) > 0) =>
    /\ Len(tasks) = nBounds
    /\ Len(exitPupilBounds) = nBounds
    /\ \A i \in 1..nBounds :
         IF tasks[i].st = "done"
         THEN /\ tasks[i].writes = 1
              /\ exitPupilBounds[i] =
                   BoundExitPupil(elementInterfaces, BucketPoint(i - 1))
         ELSE /\ tasks[i].writes = 0
              /\ exitPupilBounds[i] = EmptyBounds
    /\ pc = "done" => \A i \in 1..nBounds : tasks[i].st = "done"

\* C7's case: the loop is over for a camera whose buckets differ from one
\* another.
C7_Witness ==
  /\ pc = "done"
  /\ camera = "object"
  /\ Len(exitPupilBounds) = nBounds
  /\ \A i \in 1..nBounds : tasks[i].writes = 1
  /\ exitPupilBounds[1] # exitPupilBounds[2]
  /\ exitPupilBounds[2] # exitPupilBounds[3]

\* The calls of the two tracers.
Tracers == {"TraceLensesFromFilm", "TraceLensesFromScene"}

\* Whether the ray passed the surface of the step s: it hit the surface and
\* was refracted (no failure), and its squared radial distance there is at
\* most the squared aperture radius.
PassedSurface(s) ==
  /\ s.fail = ""
  /\ FLe(s.r2, FMul(s.apertureRadius, s.apertureRadius))

\* The surface the k-th step of a trace over n surfaces is at.
SurfaceOfStep(op, n, k) == IF op = "TraceLensesFromFilm" THEN n - k + 1 ELSE k

\* C2: a trace visits the surfaces once, in order, and stops at the first one
\* the ray does not pass; it returns success only if the ray passed every
\* surface: it hit it, its squared radial distance there was at most the
\* squared aperture radius, and it was refracted.
C2_SuccessOnlyIfEverySurfacePassed ==
  result.op \in Tracers =>
    /\ Len(result.steps) \in 1..Len(elementInterfaces)
    /\ \A k \in 1..Len(result.steps) :
         /\ result.steps[k].i =
              SurfaceOfStep(result.op, Len(elementInterfaces), k)
         /\ k < Len(result.steps) => PassedSurface(result.steps[k])
    /\ result.ok =>
         /\ Len(result.steps) = Len(elementInterfaces)
         /\ PassedSurface(result.steps[Len(result.steps)])
    /\ ~result.ok => ~PassedSurface(result.steps[Len(result.steps)])

\* C8: the point SampleExitPupil returns for a film point and a lens sample
\* of [0,1]^2 gets a density above 0 from ExitPupilPdf, and the density is
\* 1 / area of the rectangle that was sampled (stated for the cameras whose
\* lens is at a finite distance from the film).
C8_SampledPointHasDensity ==
  (result.op = "SampleExitPupil" /\ IsFinite(LensRearZ(elementInterfaces))) =>
    /\ FGt(result.pdf, Zero)
    /\ result.pdf =
         FDiv(One, Area(PupilBounds(exitPupilBounds, result.pFilm)))

\* The candidates of BoundExitPupil's grid whose ray from the film point
\* pFilm makes it through the lenses.
ExitingCandidates(pFilm) ==
  { c \in { PRear(elementInterfaces, x, y) :
              x \in 0..(nSamples - 1), y \in 0..(nSamples - 1) } :
      TraceLensesFromFilm(elementInterfaces,
        [o |-> <<pFilm[1], pFilm[2], Zero>>,
         d |-> VSub(c, <<pFilm[1], pFilm[2], Zero>>)]).ok }

\* C9: the rectangle BoundExitPupil returns is never empty: when no
\* candidate of the grid makes it through the lenses it is the whole extent
\* of the rear element, [-rearRadius, rearRadius] on both axes; otherwise
\* it contains every candidate that made it through.
C9_BoundNeverEmpty ==
  result.op = "BoundExitPupil" =>
    /\ FLe(result.bounds.pMin[1], result.bounds.pMax[1])
    /\ FLe(result.bounds.pMin[2], result.bounds.pMax[2])
    /\ \A k \in 1..2 :
         IsFinite(result.bounds.pMin[k]) /\ IsFinite(result.bounds.pMax[k])
    /\ IF ExitingCandidates(result.pFilm) = {}
       THEN result.bounds =
              [pMin |-> <<FNeg(RearElementRadius(elementInterfaces)),
                          FNeg(RearElementRadius(elementInterfaces))>>,
               pMax |-> <<RearElementRadius(elementInterfaces),
                          RearElementRadius(elementInterfaces)>>]
       ELSE \A c \in ExitingCandidates(result.pFilm) :
              /\ FLe(result.bounds.pMin[1], c[1])
              /\ FLe(c[1], result.bounds.pMax[1])
              /\ FLe(result.bounds.pMin[2], c[2])
              /\ FLe(c[2], result.bounds.pMax[2])

\* C9's case: BoundExitPupil was called for a film point from which no
\* candidate makes it through, and returned the extent of the rear element.
C9_Witness ==
  /\ result.op = "BoundExitPupil"
  /\ result.scan.numExitingRays = 0
  /\ ExitingCandidates(result.pFilm) = {}
  /\ result.bounds.pMax[1] = RearElementRadius(elementInterfaces)

\* A ray along the optical axis.
Axial(ray) ==
  /\ ray.o[1] = Zero
  /\ ray.o[2] = Zero
  /\ ray.d[1] = Zero
  /\ ray.d[2] = Zero

\* C10: with every aperture radius above 0, a ray along the optical axis, in
\* either direction, has radial distance 0 at every surface it meets, is
\* never rejected by the aperture test, and makes it through unless a
\* surface reflects it totally.
C10_AxialRaySurvives ==
  (/\ result.op \in Tracers
   /\ Axial(result.ray)
   /\ \A i \in 1..Len(elementInterfaces) :
        FGt(elementInterfaces[i].apertureRadius, Zero)) =>
    /\ \A k \in 1..Len(result.steps) :
         /\ result.steps[k].r2 = Zero
         /\ result.steps[k].fail # "aperture"
    /\ result.ok \/ result.steps[Len(result.steps)].fail = "refract"

\* The focus distances at the two ends of the bracket.
FocusLower == FocusDistance(elementInterfaces, filmDistanceLower).z
FocusUpper == FocusDistance(elementInterfaces, filmDistanceUpper).z

\* The ratio the bracket of FocusBinarySearch is widened by.
Ratio == Lit(1005, 1000)

\* C11: FocusBinarySearch always terminates: whatever FocusDistance returns
\* (Infinity included), the two while loops end after finitely many
\* multiplications by 1.005, the for loop takes its 20 iterations and a film
\* distance is returned.  The loops have no counter and FocusDistance is a
\* function of the bracket end, so this needs every turn to move the end it
\* multiplies: a turn that leaves it where it was is followed by the same
\* test, with the same outcome, for ever.
\* Refuted by s.dat: the thick lens estimate is 0, FocusDistance(0) is
\* Infinity, and 0 * 1.005 is 0.
C11_FocusBinarySearchTerminates ==
  /\ (pc = "lower" /\ FGt(FocusLower, params.focusDistance)) =>
       FMul(filmDistanceLower, Ratio) # filmDistanceLower
  /\ (pc = "upper" /\ FLt(FocusUpper, params.focusDistance)) =>
       FDiv(filmDistanceUpper, Ratio) # filmDistanceUpper

\* C12: the last thickness the constructor installs is the value that
\* FocusBinarySearch returned, and it is the one in effect while the exit
\* pupil bounds are computed and afterwards.
\* Refuted: line 84 keeps the value in fb for Info() only, and line 86
\* installs FocusThickLens(focusDistance), the estimate the search began from.
C12_BinarySearchInstalled ==
  (pc \in {"pupil", "done"} /\ elementInterfaces # <<>>) =>
    Back(elementInterfaces).thickness = fb

\* The width of the bracket [lower, upper] of film distances.
BracketWidth(lower, upper) ==
  IF FLt(FSub(lower, upper), Zero) THEN FNeg(FSub(lower, upper))
  ELSE FSub(lower, upper)

\* One iteration of the for loop has replaced exactly one end by fmid.
OneEndToMid ==
  \/ /\ filmDistanceLower' = Mid(filmDistanceLower, filmDistanceUpper)
     /\ filmDistanceUpper' = filmDistanceUpper
  \/ /\ filmDistanceUpper' = Mid(filmDistanceLower, filmDistanceUpper)
     /\ filmDistanceLower' = filmDistanceLower

\* C13 as stated: both ends of the bracket start at the thick lens estimate;
\* after the two while loops FocusDistance(lower) <= focusDistance <=
\* FocusDistance(upper); each iteration of the for loop replaces exactly one
\* end by the midpoint, keeps that enclosure and halves the width; the value
\* returned is the midpoint of the final bracket.
C13_BracketHalved ==
  /\ [](pc = "lower" /\ iter = 0 =>
          /\ filmDistanceLower = filmDistanceUpper
          /\ filmDistanceLower =
               FocusThickLens(elementInterfaces, params.focusDistance).value)
  /\ [](pc = "bisect" =>
          /\ FLe(FocusLower, params.focusDistance)
          /\ FLe(params.focusDistance, FocusUpper))
  /\ [][/\ (pc = "bisect" /\ pc' = "bisect") =>
             /\ OneEndToMid
             /\ FMul(Two, BracketWidth(filmDistanceLower', filmDistanceUpper'))
                  = BracketWidth(filmDistanceLower, filmDistanceUpper)
        /\ (pc = "bisect" /\ pc' # "bisect") =>
             fb' = Mid(filmDistanceLower, filmDistanceUpper)]_vars

\* C13 amended: both ends of the bracket start at the thick lens estimate;
\* after the two while loops, and after every iteration of the for loop,
\* FocusDistance(lower) is not greater and FocusDistance(upper) is not less
\* than focusDistance (either may be NaN); each iteration replaces exactly
\* one end by fmid = 0.5f * (lower + upper) as rounded, and the width never
\* grows; the value returned is fmid of the final bracket.
C13_BracketNarrowed ==
  /\ [](pc = "lower" /\ iter = 0 =>
          /\ filmDistanceLower = filmDistanceUpper
          /\ filmDistanceLower =
               FocusThickLens(elementInterfaces, params.focusDistance).value)
  /\ [](pc = "bisect" =>
          /\ ~FGt(FocusLower, params.focusDistance)
          /\ ~FLt(FocusUpper, params.focusDistance))
  /\ [][/\ (pc = "bisect" /\ pc' = "bisect") =>
             /\ OneEndToMid
             /\ ~FGt(BracketWidth(filmDistanceLower', filmDistanceUpper'),
                     BracketWidth(filmDistanceLower, filmDistanceUpper))
        /\ (pc = "bisect" /\ pc' # "bisect") =>
             fb' = Mid(filmDistanceLower, filmDistanceUpper)]_vars

\* C13's case: the for loop has run its 20 iterations on a bracket that was
\* widened, and the two ends still enclose focusDistance strictly.
C13_Witness ==
  /\ pc = "bisect"
  /\ iter = BisectIters
  /\ filmDistanceLower # filmDistanceUpper
  /\ FLt(FocusLower, params.focusDistance)
  /\ FGt(FocusUpper, params.focusDistance)
  /\ IsFinite(FocusUpper)

\* An index of refraction as the claim has it read: 0 stands for 1.0.
IndexOrOne(eta) == IF FEq(eta, Zero) THEN One ELSE eta

\* The index in front of surface i (1-based): that of the surface before it,
\* 1.0 when there is none.
IndexBefore(i) ==
  IF i = 1 THEN One ELSE IndexOrOne(elementInterfaces[i - 1].eta)

\* C14: at every refracting surface the pair (eta_i, eta_t) that
\* TraceLensesFromScene uses is the swap of the pair of TraceLensesFromFilm:
\* coming from the scene the ray passes from the index before the surface
\* into the surface's own, coming from the film the other way round, and in
\* both directions an index that is 0, or that of a missing previous
\* surface, is read as 1.0.
\* Refuted: TraceLensesFromFilm takes eta_i = element.eta as it is (line
\* 133), 0 included.
C14_IndexPairsSwapped ==
  result.op \in Tracers =>
    \A k \in 1..Len(result.steps) :
      (~result.steps[k].isStop /\ result.steps[k].fail \in {"", "refract"}) =>
        IF result.op = "TraceLensesFromScene"
        THEN /\ result.steps[k].eta_i = IndexBefore(result.steps[k].i)
             /\ result.steps[k].eta_t =
                  IndexOrOne(elementInterfaces[result.steps[k].i].eta)
        ELSE /\ result.steps[k].eta_t = IndexBefore(result.steps[k].i)
             /\ result.steps[k].eta_i =
                  IndexOrOne(elementInterfaces[result.steps[k].i].eta)

\* The ray, in lens space, that met the k-th surface of the trace in result.
RayInto(k) ==
  IF k = 1 THEN CameraToLens(result.ray)
  ELSE [o |-> result.steps[k - 1].o, d |-> result.steps[k - 1].d]

\* The direction Refract gives the ray at the k-th surface of the trace.
Refracted(k) ==
  Refract(Normalize(VNeg(RayInto(k).d)),
          Intersect(elementInterfaces[result.steps[k].i],
                    result.steps[k].elementZ, RayInto(k)).n,
          FDiv(result.steps[k].eta_i, result.steps[k].eta_t))

\* The k-th surface of the trace took the ray as an aperture stop does: the
\* ray meets the plane z = elementZ, is clipped by the aperture, moves to the
\* hit point when it passes, and keeps its direction.
ActsAsStop(k) ==
  /\ result.steps[k].t =
       FDiv(FNeg(FSub(RayInto(k).o[3], result.steps[k].elementZ)),
            RayInto(k).d[3])
  /\ result.steps[k].pHit = RayAt(RayInto(k), result.steps[k].t)
  /\ result.steps[k].fail \in {"", "aperture"}
  /\ result.steps[k].fail = "aperture" <=>
       FGt(result.steps[k].r2,
           FMul(result.steps[k].apertureRadius, result.steps[k].apertureRadius))
  /\ result.steps[k].fail = "" =>
       /\ result.steps[k].o = result.steps[k].pHit
       /\ result.steps[k].d = RayInto(k).d

\* The k-th surface of the trace refracted the ray it let pass.
ActsAsInterface(k) ==
  result.steps[k].fail = "" =>
    /\ result.steps[k].o = result.steps[k].pHit
    /\ ~FGt(result.steps[k].r2,
            FMul(result.steps[k].apertureRadius, result.steps[k].apertureRadius))
    /\ Refracted(k).ok
    /\ result.steps[k].d = Refracted(k).wt

\* C15: in both directions of tracing exactly the surfaces with
\* curvatureRadius == 0 act as stops that do not refract (the origin moves
\* to the hit point on the plane, the aperture clips, the direction stays);
\* at every other surface the ray passes, its direction is replaced by the
\* refracted one.
C15_StopsDoNotRefract ==
  result.op \in Tracers =>
    \A k \in 1..Len(result.steps) :
      IF FEq(elementInterfaces[result.steps[k].i].curvatureRadius, Zero)
      THEN ActsAsStop(k)
      ELSE ActsAsInterface(k)

\* C15's case: a ray has made it through a lens with a stop; it passed the
\* stop off the axis with its direction kept, and was bent by a surface.
C15_Witness ==
  /\ result.op \in Tracers
  /\ result.ok
  /\ \E k \in 1..Len(result.steps) :
       /\ FEq(elementInterfaces[result.steps[k].i].curvatureRadius, Zero)
       /\ FGt(result.steps[k].r2, Zero)
       /\ result.steps[k].d = result.steps[k].dIn
  /\ \E k \in 1..Len(result.steps) :
       /\ ~FEq(elementInterfaces[result.steps[k].i].curvatureRadius, Zero)
       /\ result.steps[k].d # result.steps[k].dIn

\* C16: Assert(t >= 0.f) holds at every surface a trace reaches, whatever the
\* ray: IntersectSphericalElement reports no negative t, and at a stop
\* t = -(o.z - elementZ) / d.z is defined and not negative.
\* Refuted: the t of a stop is not tested, only asserted.
C16_HitParameterNotNegative ==
  result.op \in Tracers =>
    \A k \in 1..Len(result.steps) :
      result.steps[k].fail # "miss" => FGe(result.steps[k].t, Zero)

\* The width of a cell of BoundExitPupil's grid: nSamples cells across the
\* square of side 2 * 1.2 * rearRadius.
CellWidth == FDiv(FMul(Lit(24, 10), RearElementRadius(elementInterfaces)),
                  FromInt(nSamples))

\* The rectangle in result is the bounding rectangle of the candidates that
\* made it through, widened by delta on every side.
WidenedBy(delta) ==
  /\ \A c \in ExitingCandidates(result.pFilm) :
       /\ FLe(result.bounds.pMin[1], FSub(c[1], delta))
       /\ FLe(result.bounds.pMin[2], FSub(c[2], delta))
       /\ FGe(result.bounds.pMax[1], FAdd(c[1], delta))
       /\ FGe(result.bounds.pMax[2], FAdd(c[2], delta))
  /\ \E c \in ExitingCandidates(result.pFilm) :
       result.bounds.pMin[1] = FSub(c[1], delta)
  /\ \E c \in ExitingCandidates(result.pFilm) :
       result.bounds.pMin[2] = FSub(c[2], delta)
  /\ \E c \in ExitingCandidates(result.pFilm) :
       result.bounds.pMax[1] = FAdd(c[1], delta)
  /\ \E c \in ExitingCandidates(result.pFilm) :
       result.bounds.pMax[2] = FAdd(c[2], delta)

\* C17 as stated: when at least one candidate exits, BoundExitPupil expands
\* the rectangle of the exiting candidates by one half of the width of a
\* grid cell, 0.5 * (2.4 * rearRadius / N), in each axis.
C17_ExpandedByHalfCell ==
  (result.op = "BoundExitPupil" /\ result.scan.numExitingRays > 0) =>
    WidenedBy(FMul(Lit(1, 2), CellWidth))

\* C17 amended: when at least one candidate exits, BoundExitPupil expands
\* the rectangle of the exiting candidates by 2 * rearRadius / N in each
\* axis, which is 5/6 of the width of a grid cell.
C17_ExpandedByTwoRadiiOverN ==
  (result.op = "BoundExitPupil" /\ result.scan.numExitingRays > 0) =>
    /\ ExitingCandidates(result.pFilm) # {}
    /\ WidenedBy(FDiv(FMul(Two, RearElementRadius(elementInterfaces)),
                      FromInt(nSamples)))

\* C17's case: BoundExitPupil was called for a film point from which some
\* candidates make it through and others do not.
C17_Witness ==
  /\ result.op = "BoundExitPupil"
  /\ result.scan.numExitingRays > 0
  /\ result.scan.numExitingRays < nSamples * nSamples
  /\ IsFinite(result.bounds.pMin[1])
  /\ FLt(result.bounds.pMin[1], result.bounds.pMax[1])

\* C18: whatever the image point, and however the construction ended, the
\* bucket GenerateRay's SampleExitPupil and ExitPupilPdf read is
\* min(count - 1, floor(r * (count - 1))), an index from 0 to count - 1 of
\* exitPupilBounds, and the bucket after it is read only when there is one:
\* no read is out of range.
\* Refuted: after a constructor that returned early count is 0, and the
\* bucket read is that of index -1.
C18_BucketIndexInRange ==
  (result.op = "GenerateRay" /\ camera = "object") =>
    /\ PupilIndex(exitPupilBounds, result.pFilm) \in
         0..(Len(exitPupilBounds) - 1)
    /\ PupilIndex(exitPupilBounds, result.pFilm) + 1 < Len(exitPupilBounds) =>
         PupilIndex(exitPupilBounds, result.pFilm) + 2 \in
           1..Len(exitPupilBounds)
=============================================================================
